---- MODULE Spec2Model ----
(***************************************************************************)
(* State machine of the DeepDive research chat (src/App.tsx) and of the    *)
(* provider call it consumes (src/services/geminiService.ts).              *)
(*                                                                         *)
(* Representation.  A JavaScript string is a sequence of pieces: the text  *)
(* that flows through the program (the input box, chunk texts, the         *)
(* artifact, the separator) is kept character by character, a fixed        *)
(* message literal of the source is one piece.  The empty string is <<>>,  *)
(* so JavaScript truthiness of a string is "# <<>>".                       *)
(*                                                                         *)
(* React state is updated by functional updaters that are batched: the     *)
(* updates queued by one synchronous run of a handler (up to its next      *)
(* await) are committed together, and the component re-renders before the  *)
(* next event is dispatched.  One action is one such synchronous run.      *)
(* The Message.timestamp field is only rendered (App.tsx:222) and is left  *)
(* out; message ids are kept because the transient message is removed by   *)
(* id.  Date.now() is read as one instant for the whole behaviour: ids of  *)
(* one kind are then all equal, the case in which a filter by id removes   *)
(* the most; later readings only make ids more distinct.                   *)
(***************************************************************************)
EXTENDS Integers, Sequences, FiniteSets, TLC

MaxSessions == 2   \* accepted submissions per behaviour
MaxChunks == 3     \* chunks the provider delivers in one behaviour

VARIABLES
    input,             \* useState('')                       App.tsx:39
    messages,          \* useState<Message[]>([welcome])     App.tsx:40
    isArtifactOpen,    \* useState(true)                     App.tsx:48
    isResearching,     \* useState(false)                    App.tsx:49
    artifactContent,   \* useState<string>("")               App.tsx:50
    groundingSources,  \* useState<GroundingChunk[]>([])     App.tsx:51
    loadingStatus,     \* useState<string>('')               App.tsx:52
    copied,            \* useState(false)                    App.tsx:164
    delivered,         \* chunks the provider has delivered so far
    sessions,          \* the handleSend runs suspended at an await
    finished,          \* the run that ended last, until the next one starts
    lastEvent          \* the handler run that produced this state

\* the state only the panel's buttons touch
ui == <<copied>>

vars == <<input, messages, isArtifactOpen, isResearching, artifactContent,
          groundingSources, loadingStatus, copied, delivered, sessions,
          finished, lastEvent>>

----------------------------------------------------------------------------
(* Strings *)

Whitespace == {" ", "\n"}

RECURSIVE TrimStart(_)
TrimStart(s) ==
    IF s # <<>> /\ Head(s) \in Whitespace THEN TrimStart(Tail(s)) ELSE s

RECURSIVE TrimEnd(_)
TrimEnd(s) ==
    IF s # <<>> /\ s[Len(s)] \in Whitespace
    THEN TrimEnd(SubSeq(s, 1, Len(s) - 1)) ELSE s

\* String.prototype.trim, as used by the guard of handleSend
Trim(s) == TrimEnd(TrimStart(s))

\* "\n\n---\n\n"
Separator == <<"\n", "\n", "-", "-", "-", "\n", "\n">>

\* values the input box is set to by onChange
Inputs == { <<>>, <<" ">>, <<"q">>, <<" ", "r", " ">> }

----------------------------------------------------------------------------
(* Messages *)

\* Date.now()
DateNow == 0

WelcomeMsg ==
    [id |-> <<"welcome">>, role |-> "ai",
     content |-> <<"Hello. I am your Deep Research Assistant. Give me a topic, and I will conduct a comprehensive analysis, searching the web for the latest data.">>]

\* userMsg
UserMsg(text) ==
    [id |-> <<ToString(DateNow)>>, role |-> "user", content |-> text]

\* 'thinking-' + Date.now()
ThinkingId == <<"thinking-", ToString(DateNow)>>

ThinkingContent == <<"Conducting deep search and analysis...">>

ThinkingMsg(thinkingId) ==
    [id |-> thinkingId, role |-> "system", content |-> ThinkingContent]

CompletionMsg_Trimmed(topic) ==
    [id |-> <<ToString(DateNow)>>, role |-> "ai",
     content |-> <<"I've updated the research artifact with findings on \"">>
                 \o Trim(topic) \o <<"\".">>]

CompletionMsg(topic) ==
    [id |-> <<ToString(DateNow)>>, role |-> "ai",
     content |-> <<"I've updated the research artifact with findings on \"">>
                 \o topic \o <<"\".">>]

ErrorContent == <<"An error occurred during research. Please try again.">>

ErrorMsg ==
    [id |-> <<ToString(DateNow)>>, role |-> "system", content |-> ErrorContent]

RemoveThinking_None(prev, thinkingId) == prev

RemoveThinking_Inverted(prev, thinkingId) ==
    SelectSeq(prev, LAMBDA m : m.id = thinkingId)

RemoveThinking_ByRole(prev, thinkingId) ==
    SelectSeq(prev, LAMBDA m : m.role # "system")

\* prev.filter(m => m.id !== thinkingId)
RemoveThinking(prev, thinkingId) ==
    SelectSeq(prev, LAMBDA m : m.id # thinkingId)

----------------------------------------------------------------------------
(* Chunks of the provider's stream *)

\* A GroundingChunk: { web?: { uri, title } }
Web(uri, title) == [hasWeb |-> TRUE, uri |-> uri, title |-> title]
NoWeb == [hasWeb |-> FALSE, uri |-> <<>>, title |-> <<>>]

CiteA == Web(<<"a.com">>, <<"A">>)
CiteA2 == Web(<<"a.com">>, <<"A2">>)
CiteB == Web(<<"b.com">>, <<"B">>)

\* A response chunk: reading .text throws or yields a string (undefined is
\* read as ''), and candidates?.[0]?.groundingMetadata?.groundingChunks is
\* absent or a list.
Chunk(throws, text, hasGrounding, gcs) ==
    [textThrows |-> throws, text |-> text,
     hasGrounding |-> hasGrounding, groundingChunks |-> gcs]

TextOnly == Chunk(FALSE, <<"x">>, FALSE, <<>>)
TextCited == Chunk(FALSE, <<"y">>, TRUE, <<CiteA>>)
Suppressed == Chunk(TRUE, <<>>, TRUE, <<CiteB>>)
CitedOnly == Chunk(FALSE, <<>>, TRUE, <<NoWeb, CiteB, CiteA, CiteA2>>)

\* the chunks a stream may deliver
Chunks == { TextOnly, TextCited, Suppressed, CitedOnly }

\* c.web?.uri
UriOf(c) == IF c.hasWeb THEN c.uri ELSE <<>>

\* new Set(prev.map(c => c.web?.uri))
ExistingUris(prev) == { UriOf(prev[k]) : k \in DOMAIN prev }

MergeSources_Replace(prev, newChunks) ==
    SelectSeq(newChunks, LAMBDA c : UriOf(c) # <<>>)

MergeSources_NoFilter(prev, newChunks) ==
    prev \o SelectSeq(newChunks, LAMBDA c : UriOf(c) # <<>>)

\* the updater of setGroundingSources
MergeSources(prev, newChunks) ==
    prev \o SelectSeq(newChunks,
                      LAMBDA c : UriOf(c) # <<>>
                                 /\ UriOf(c) \notin ExistingUris(prev))

WithSeparator_Reset(prev) == <<>>

WithSeparator_Always(prev) == prev \o Separator

\* prev => prev ? prev + "\n\n---\n\n" : ""
WithSeparator(prev) == IF prev # <<>> THEN prev \o Separator ELSE <<>>

AppendText_Prepend(prev, text) == text \o prev

\* prev => prev + text
AppendText(prev, text) == prev \o text

----------------------------------------------------------------------------
(* The state after construction *)

Init ==
    /\ input = <<>>
    /\ messages = <<WelcomeMsg>>
    /\ isArtifactOpen = TRUE
    /\ isResearching = FALSE
    /\ artifactContent = <<>>
    /\ groundingSources = <<>>
    /\ loadingStatus = <<>>
    /\ copied = FALSE
    /\ delivered = 0
    /\ sessions = <<>>
    /\ finished = <<>>
    /\ lastEvent = "init"

\* onChange of the textarea: setInput(e.target.value).  The handler has no
\* guard of its own; disabled={isResearching} is an attribute of the rendered
\* element, and a change event dispatched on it still runs the handler, so
\* the input may be non-blank while researching.
SetInput(v) ==
    /\ input' = v
    /\ lastEvent' = "setInput"
    /\ UNCHANGED <<messages, isArtifactOpen, isResearching, artifactContent,
                   groundingSources, loadingStatus, delivered, sessions,
                   finished>>
    /\ UNCHANGED ui

Rejected_NoBusy == Trim(input) = <<>>

Rejected_And == Trim(input) = <<>> /\ isResearching

Rejected_NoTrim == input = <<>> \/ isResearching

\* if (!input.trim() || isResearching) return;
Rejected == Trim(input) = <<>> \/ isResearching

\* handleSend returning at line 73
HandleSendRejected ==
    /\ Rejected
    /\ lastEvent' = "rejected"
    /\ UNCHANGED <<input, messages, isArtifactOpen, isResearching,
                   artifactContent, groundingSources, loadingStatus,
                   delivered, sessions, finished>>
    /\ UNCHANGED ui

\* the user messages appended so far, one per accepted handleSend
Submitted == Len(SelectSeq(messages, LAMBDA m : m.role = "user"))

Submit_PassUpdated ==
    /\ ~Rejected
    /\ Submitted < MaxSessions
    /\ messages' = messages \o <<UserMsg(input), ThinkingMsg(ThinkingId)>>
    /\ sessions' = Append(sessions,
           [pc |-> "starting",
            content |-> input,
            thinkingId |-> ThinkingId,
            currentArtifact |-> WithSeparator(artifactContent),
            chunk |-> <<>>,
            texts |-> <<>>,
            skipped |-> 0])
    /\ input' = <<>>
    /\ isResearching' = TRUE
    /\ isArtifactOpen' = TRUE
    /\ loadingStatus' = <<"Searching global indices...">>
    /\ artifactContent' = WithSeparator(artifactContent)
    /\ finished' = <<>>
    /\ lastEvent' = "submit"
    /\ UNCHANGED <<groundingSources, delivered>>
    /\ UNCHANGED ui

\* handleSend from line 75 to the await of line 102.  The record appended to
\* sessions is the closure of the run: userMsg.content, thinkingId and the
\* artifactContent of the render it was created in (the argument handed to
\* streamResearch) are what the code keeps; chunk is the loop variable;
\* texts and skipped record what the loop has consumed (the extracted texts
\* in order, the number of chunks whose text threw).
Submit ==
    /\ ~Rejected
    /\ Submitted < MaxSessions
    /\ LET userMsg == UserMsg(input)
           thinkingId == ThinkingId
       IN /\ messages' = messages \o <<userMsg, ThinkingMsg(thinkingId)>>
          /\ sessions' = Append(sessions,
               [pc |-> "starting",
                content |-> userMsg.content,
                thinkingId |-> thinkingId,
                currentArtifact |-> artifactContent,
                chunk |-> <<>>,
                texts |-> <<>>,
                skipped |-> 0])
    /\ input' = <<>>
    /\ isResearching' = TRUE
    /\ isArtifactOpen' = TRUE
    /\ loadingStatus' = <<"Searching global indices...">>
    /\ artifactContent' = WithSeparator(artifactContent)
    /\ finished' = <<>>
    /\ lastEvent' = "submit"
    /\ UNCHANGED <<groundingSources, delivered>>
    /\ UNCHANGED ui

Session(i) == sessions[i]

SetSession(i, r) == [sessions EXCEPT ![i] = r]

\* the run i leaves handleSend: its closure is kept in finished
EndSession(i, r) ==
    /\ sessions' = SubSeq(sessions, 1, i - 1)
                     \o SubSeq(sessions, i + 1, Len(sessions))
    /\ finished' = <<r>>

\* const result = await streamResearch(...) resolving with the response
\* stream (geminiService.ts:39-50); no React state is touched
StreamOpened(i) ==
    /\ Session(i).pc = "starting"
    /\ sessions' = SetSession(i, [Session(i) EXCEPT !.pc = "streaming"])
    /\ lastEvent' = "streamOpened"
    /\ UNCHANGED <<input, messages, isArtifactOpen, isResearching,
                   artifactContent, groundingSources, loadingStatus,
                   delivered, finished>>
    /\ UNCHANGED ui

CatchFinally_NoFinally(i, event) ==
    /\ messages' = Append(RemoveThinking(messages, Session(i).thinkingId),
                          ErrorMsg)
    /\ loadingStatus' = <<>>
    /\ EndSession(i, [Session(i) EXCEPT !.pc = "failed"])
    /\ lastEvent' = event
    /\ UNCHANGED <<input, isArtifactOpen, isResearching, artifactContent,
                   groundingSources, delivered>>
    /\ UNCHANGED ui

CatchFinally_Rollback(i, event) ==
    /\ messages' = Append(RemoveThinking(messages, Session(i).thinkingId),
                          ErrorMsg)
    /\ loadingStatus' = <<>>
    /\ isResearching' = FALSE
    /\ artifactContent' = Session(i).currentArtifact
    /\ EndSession(i, [Session(i) EXCEPT !.pc = "failed"])
    /\ lastEvent' = event
    /\ UNCHANGED <<input, isArtifactOpen, groundingSources, delivered>>
    /\ UNCHANGED ui

\* the catch block followed by the finally block
CatchFinally(i, event) ==
    /\ messages' = Append(RemoveThinking(messages, Session(i).thinkingId),
                          ErrorMsg)
    /\ loadingStatus' = <<>>
    /\ isResearching' = FALSE
    /\ EndSession(i, [Session(i) EXCEPT !.pc = "failed"])
    /\ lastEvent' = event
    /\ UNCHANGED <<input, isArtifactOpen, artifactContent, groundingSources,
                   delivered>>
    /\ UNCHANGED ui

\* streamResearch rethrows the provider's error (geminiService.ts:51-54):
\* the await of line 102 throws before any chunk
StartFailed(i) ==
    /\ Session(i).pc = "starting"
    /\ CatchFinally(i, "startFailed")

\* the stream's iterator throws inside for await
StreamError(i) ==
    /\ Session(i).pc = "streaming"
    /\ CatchFinally(i, "streamError")

SkipChunk_Rethrow(i, c) ==
    /\ messages' = Append(RemoveThinking(messages, Session(i).thinkingId),
                          ErrorMsg)
    /\ loadingStatus' = <<>>
    /\ isResearching' = FALSE
    /\ EndSession(i, [Session(i) EXCEPT
                        !.pc = "failed", !.chunk = <<c>>, !.skipped = @ + 1])
    /\ delivered' = delivered + 1
    /\ lastEvent' = "chunk"
    /\ UNCHANGED <<input, isArtifactOpen, artifactContent, groundingSources>>
    /\ UNCHANGED ui

SkipChunk_Surface(i, c) ==
    /\ sessions' = SetSession(i, [Session(i) EXCEPT
                       !.chunk = <<c>>, !.skipped = @ + 1])
    /\ messages' = Append(messages, ErrorMsg)
    /\ delivered' = delivered + 1
    /\ lastEvent' = "chunk"
    /\ UNCHANGED <<input, isArtifactOpen, isResearching, artifactContent,
                   groundingSources, loadingStatus, finished>>
    /\ UNCHANGED ui

\* the inner catch: console.warn(...); continue;
SkipChunk(i, c) ==
    /\ sessions' = SetSession(i, [Session(i) EXCEPT
                       !.chunk = <<c>>, !.skipped = @ + 1])
    /\ delivered' = delivered + 1
    /\ lastEvent' = "chunk"
    /\ UNCHANGED <<input, messages, isArtifactOpen, isResearching,
                   artifactContent, groundingSources, loadingStatus,
                   finished>>
    /\ UNCHANGED ui

\* the loop body after text = chunk.text || '' succeeded
MergeChunk(i, c) ==
    LET text == c.text
    IN /\ artifactContent' =
              IF text # <<>> THEN AppendText(artifactContent, text)
                             ELSE artifactContent
       /\ groundingSources' =
              IF c.hasGrounding
              THEN MergeSources(groundingSources, c.groundingChunks)
              ELSE groundingSources
       /\ sessions' = SetSession(i, [Session(i) EXCEPT
                          !.chunk = <<c>>, !.texts = @ \o text])
       /\ delivered' = delivered + 1
       /\ lastEvent' = "chunk"
       /\ UNCHANGED <<input, messages, isArtifactOpen, isResearching,
                      loadingStatus, finished>>
       /\ UNCHANGED ui

\* one iteration of for await (const chunk of result)
OnChunk(i, c) ==
    /\ Session(i).pc = "streaming"
    /\ delivered < MaxChunks
    /\ IF c.textThrows THEN SkipChunk(i, c) ELSE MergeChunk(i, c)

\* the stream is exhausted: lines 131-138, then the finally block
StreamEnd(i) ==
    /\ Session(i).pc = "streaming"
    /\ messages' = Append(RemoveThinking(messages, Session(i).thinkingId),
                          CompletionMsg(Session(i).content))
    /\ loadingStatus' = <<>>
    /\ isResearching' = FALSE
    /\ EndSession(i, [Session(i) EXCEPT !.pc = "completed"])
    /\ lastEvent' = "streamEnd"
    /\ UNCHANGED <<input, isArtifactOpen, artifactContent, groundingSources,
                   delivered>>
    /\ UNCHANGED ui

Next ==
    \/ \E v \in Inputs : SetInput(v)
    \/ HandleSendRejected
    \/ Submit
    \/ \E i \in DOMAIN sessions : StreamOpened(i)
    \/ \E i \in DOMAIN sessions : StartFailed(i)
    \/ \E i \in DOMAIN sessions : \E c \in Chunks : OnChunk(i, c)
    \/ \E i \in DOMAIN sessions : StreamEnd(i)
    \/ \E i \in DOMAIN sessions : StreamError(i)

Spec == Init /\ [][Next]_vars

\* The provider settles every request and every stream it opened: the await
\* of line 102 resolves or throws, and the chunk sequence is finite (it ends
\* or fails), after which the event loop resumes the suspended run.
FairSpec ==
    /\ Spec
    /\ WF_vars(\E i \in DOMAIN sessions : StreamOpened(i) \/ StartFailed(i))
    /\ WF_vars(\E i \in DOMAIN sessions : StreamEnd(i) \/ StreamError(i))

----------------------------------------------------------------------------
(* The artifact panel's buttons *)

\* setIsArtifactOpen(true) of the header button, rendered while the panel is
\* closed, and setIsArtifactOpen(false) of the panel's close buttons,
\* rendered while it is open
SetIsArtifactOpen(b) ==
    /\ b # isArtifactOpen
    /\ isArtifactOpen' = b
    /\ lastEvent' = "setIsArtifactOpen"
    /\ UNCHANGED <<input, messages, isResearching, artifactContent,
                   groundingSources, loadingStatus, delivered, sessions,
                   finished>>
    /\ UNCHANGED ui

CopyToClipboard_Cut ==
    /\ isArtifactOpen
    /\ artifactContent' = <<>>
    /\ copied' = TRUE
    /\ lastEvent' = "copyToClipboard"
    /\ UNCHANGED <<input, messages, isArtifactOpen, isResearching,
                   groundingSources, loadingStatus, delivered, sessions,
                   finished>>

\* copyToClipboard, on the button inside the open panel.  The text handed
\* to navigator.clipboard.writeText leaves the program and is never read
\* back; it is not part of the state.
CopyToClipboard ==
    /\ isArtifactOpen
    /\ copied' = TRUE
    /\ lastEvent' = "copyToClipboard"
    /\ UNCHANGED <<input, messages, isArtifactOpen, isResearching,
                   artifactContent, groundingSources, loadingStatus,
                   delivered, sessions, finished>>

\* the callback of setTimeout(() => setCopied(false), 2000).  Every click
\* arms one timer; a timer that fires while copied is already false changes
\* nothing, so only the firing that clears the flag is a step.
CopiedTimeout ==
    /\ copied
    /\ copied' = FALSE
    /\ lastEvent' = "copiedTimeout"
    /\ UNCHANGED <<input, messages, isArtifactOpen, isResearching,
                   artifactContent, groundingSources, loadingStatus,
                   delivered, sessions, finished>>

\* values typed into the input box in the behaviours of SpecUI
UiInputs == { <<>>, <<" ">>, <<"q">> }

NextUI ==
    \/ \E v \in UiInputs : SetInput(v)
    \/ HandleSendRejected
    \/ Submit
    \/ \E i \in DOMAIN sessions : StreamOpened(i)
    \/ \E i \in DOMAIN sessions : StartFailed(i)
    \/ \E i \in DOMAIN sessions : \E c \in Chunks : OnChunk(i, c)
    \/ \E i \in DOMAIN sessions : StreamEnd(i)
    \/ \E i \in DOMAIN sessions : StreamError(i)
    \/ \E b \in BOOLEAN : SetIsArtifactOpen(b)
    \/ CopyToClipboard
    \/ CopiedTimeout

\* the chat together with the panel's buttons
SpecUI == Init /\ [][NextUI]_vars

----------------------------------------------------------------------------
(* Properties *)

\* what a run that started on prior and extracted texts leaves in the artifact
Expected(r) ==
    r.currentArtifact
      \o (IF r.currentArtifact # <<>> THEN Separator ELSE <<>>)
      \o r.texts

IsPrefix(s, t) == Len(s) <= Len(t) /\ SubSeq(t, 1, Len(s)) = s

Blank(s) == \A k \in DOMAIN s : s[k] \in Whitespace

Last(s) == s[Len(s)]

HandleSendRan == lastEvent' \in {"rejected", "submit"}

\* C1: after a run of handleSend that ended normally, the artifact is the
\* artifact the run started on, the separator if that was not empty, and the
\* texts extracted from the run's chunks, in arrival order.
C1_FinalArtifact ==
    \A k \in DOMAIN finished :
        finished[k].pc = "completed" => artifactContent = Expected(finished[k])

\* a completed run that started on a non-empty artifact and extracted two
\* different texts
C1_Witness ==
    /\ finished # <<>>
    /\ finished[1].pc = "completed"
    /\ finished[1].currentArtifact # <<>>
    /\ finished[1].texts = <<"x", "y">>

\* C2: while isResearching exactly one run of handleSend (one call of
\* streamResearch) is between its Submit and its terminal event, and when
\* not researching none is.
C2_OneActiveStream ==
    /\ isResearching => Len(sessions) = 1
    /\ ~isResearching => Len(sessions) = 0

\* a submit attempt with a topic typed in, made between two chunk arrivals
\* of the second session
C2_Witness ==
    /\ isResearching
    /\ Len(sessions) = 1
    /\ Submitted = 2
    /\ sessions[1].pc = "streaming"
    /\ lastEvent = "rejected"

\* C3: a run of handleSend made while researching changes neither the
\* message list, the artifact, the citation set nor the session state, and
\* starts no stream.
C3_SubmitWhileResearching ==
    [][(isResearching /\ HandleSendRan)
         => UNCHANGED <<messages, artifactContent, groundingSources,
                        isResearching, sessions>>]_vars

\* handleSend was called with a non-blank input after a chunk had arrived
C3_Witness ==
    /\ lastEvent = "rejected"
    /\ isResearching
    /\ ~Blank(input)
    /\ delivered >= 1
    /\ sessions[1].chunk # <<>>

\* C4: after a run that failed, the artifact still holds what the run had
\* appended (separator and the texts of the chunks merged before the
\* failure), the last message is the system-role error message and the
\* state is Idle.
C4_ErrorKeepsPartial ==
    \A k \in DOMAIN finished :
        finished[k].pc = "failed"
          => /\ artifactContent = Expected(finished[k])
             /\ ~isResearching
             /\ Last(messages).role = "system"
             /\ Last(messages).content = ErrorContent

\* the stream threw after one chunk of text on an empty artifact
C4_Witness ==
    /\ finished # <<>>
    /\ finished[1].pc = "failed"
    /\ lastEvent = "streamError"
    /\ finished[1].currentArtifact = <<>>
    /\ finished[1].texts = <<"x">>
    /\ artifactContent = <<"x">>

\* C5: a chunk whose text access throws adds nothing to the artifact and
\* leaves the run in its loop: after every chunk the run is still streaming,
\* and the artifact holds exactly the texts of the chunks that did not throw.
C5_SuppressedChunkSkipped ==
    /\ lastEvent = "chunk" => isResearching /\ sessions # <<>>
    /\ \A i \in DOMAIN sessions :
         /\ artifactContent = Expected(sessions[i])
         /\ sessions[i].chunk # <<>> => sessions[i].pc = "streaming"

\* a run that completed after a suppressed chunk was followed by a chunk
\* whose text was appended
C5_Witness ==
    /\ finished # <<>>
    /\ finished[1].pc = "completed"
    /\ finished[1].skipped >= 1
    /\ finished[1].chunk = <<TextOnly>>
    /\ finished[1].texts = <<"x">>

\* C6: the citations carried by the chunk the loop has just consumed are in
\* the citation set, also when the chunk's text was suppressed.
C6_SuppressedKeepsCitations ==
    \A i \in DOMAIN sessions :
        \A j \in DOMAIN sessions[i].chunk :
            LET c == sessions[i].chunk[j]
            IN c.hasGrounding
                 => \A k \in DOMAIN c.groundingChunks :
                       UriOf(c.groundingChunks[k]) # <<>>
                         => UriOf(c.groundingChunks[k])
                              \in ExistingUris(groundingSources)

\* C7: no two entries of the citation set have the same uri.
C7_UniqueUris ==
    \A j, k \in DOMAIN groundingSources :
        j # k => UriOf(groundingSources[j]) # UriOf(groundingSources[k])

\* C8: merging a list whose uris are all in the citation set leaves the set
\* as it is, and merging any list a second time changes nothing.
C8_MergeIdempotent ==
    \A c \in Chunks :
        LET l == c.groundingChunks
            once == MergeSources(groundingSources, l)
        IN /\ MergeSources(once, l) = once
           /\ (\A k \in DOMAIN l :
                  UriOf(l[k]) = <<>>
                    \/ UriOf(l[k]) \in ExistingUris(groundingSources))
                => once = groundingSources

\* the same cited chunk was merged twice in one run and the set has one entry
C8_Witness ==
    /\ sessions # <<>>
    /\ sessions[1].texts = <<"y", "y">>
    /\ groundingSources = <<CiteA>>

\* C9: a run of handleSend on a blank input (empty or only whitespace)
\* changes nothing and starts no stream, whatever the state.
C9_BlankSubmit ==
    [][(Blank(input) /\ HandleSendRan)
         => UNCHANGED <<messages, artifactContent, groundingSources,
                        isResearching, input, sessions>>]_vars

\* handleSend was called in Idle on an input of one space
C9_Witness ==
    /\ lastEvent = "rejected"
    /\ ~isResearching
    /\ input = <<" ">>

\* the messages other than the transient 'thinking-' message
Permanent(ms) == SelectSeq(ms, LAMBDA m : Head(m.id) # "thinking-")

\* C10 as stated: the previous message list is a prefix of the next one.
C10_PrefixAlways == [][IsPrefix(messages, messages')]_vars

\* C10 amended: the messages other than the transient one are never removed,
\* changed or reordered, and the list is rewritten only by a run's terminal
\* event, which takes the transient message out.
C10_PermanentOnlyGrow ==
    [][/\ IsPrefix(Permanent(messages), Permanent(messages'))
       /\ (IsPrefix(messages, messages')
             \/ (/\ lastEvent' \in {"streamEnd", "streamError", "startFailed"}
                 /\ Permanent(messages) = SubSeq(messages', 1, Len(messages') - 1)))]_vars

\* the second session ended after the first one had failed
C10_Witness ==
    /\ lastEvent = "streamEnd"
    /\ Len(messages) = 5
    /\ messages[3].content = ErrorContent


UserMessages(ms) == SelectSeq(ms, LAMBDA m : m.role = "user")

\* the content of the user message appended last
LastTopic == Last(UserMessages(messages)).content

CompletionOf(topic) ==
    <<"I've updated the research artifact with findings on \"">>
      \o topic \o <<"\".">>

ErrorCount(ms) == Len(SelectSeq(ms, LAMBDA m : m.content = ErrorContent))

\* C11: after a run that ended normally the state is Idle and the last
\* message is the ai-role message naming the topic of that run's user
\* message, as it was typed.
C11_CompletionNamesTopic ==
    \A k \in DOMAIN finished :
        finished[k].pc = "completed"
          => /\ ~isResearching
             /\ Last(messages).role = "ai"
             /\ Last(messages).content = CompletionOf(LastTopic)

\* the second session completed on a topic other than the first one's
C11_Witness ==
    /\ finished # <<>>
    /\ finished[1].pc = "completed"
    /\ Len(UserMessages(messages)) = 2
    /\ UserMessages(messages)[1].content = <<"q">>
    /\ LastTopic = <<" ", "r", " ">>

\* C12: a step adds an error message exactly when it is a run's failure
\* (the request or the stream threw), and then it adds one and leaves the
\* state Idle; a suppressed chunk adds none.  In Idle a non-blank input is
\* not rejected.
C12_ErrorsSurfacedOnce ==
    [][/\ ErrorCount(messages')
            = ErrorCount(messages)
                + (IF lastEvent' \in {"streamError", "startFailed"}
                   THEN 1 ELSE 0)
       /\ lastEvent' \in {"streamError", "startFailed", "streamEnd"}
            => ~isResearching' /\ (~Blank(input') => ~Rejected')]_vars

\* the first session failed, the second was accepted, skipped a suppressed
\* chunk and completed: one error message in all
C12_Witness ==
    /\ finished # <<>>
    /\ finished[1].pc = "completed"
    /\ finished[1].skipped >= 1
    /\ Submitted = 2
    /\ ErrorCount(messages) = 1

\* C13: researching leads to Idle.
C13_ResearchingLeadsToIdle == isResearching ~> ~isResearching

\* back in Idle after streamResearch threw before any chunk
C13_Witness ==
    /\ lastEvent = "startFailed"
    /\ ~isResearching
    /\ sessions = <<>>

\* C14: every step leaves the previous artifact as a prefix of the new one.
C14_ArtifactAppendOnly == [][IsPrefix(artifactContent, artifactContent')]_vars

\* a second session appended after the separator
C14_Witness ==
    artifactContent = <<"x">> \o Separator \o <<"y">>

\* C15: the artifact and the citation set change only in a step of an
\* accepted Submit or of chunk consumption, and in Idle editing the input,
\* the panel's buttons, copying and a rejected submit leave artifact,
\* citation set and message list as they are.
C15_OnlySubmitPathMutates ==
    [][/\ lastEvent' \notin {"submit", "chunk"}
            => UNCHANGED <<artifactContent, groundingSources>>
       /\ (~isResearching /\ lastEvent' # "submit")
            => UNCHANGED <<artifactContent, groundingSources, messages>>]_vars

\* the artifact was copied in Idle after a session had written it
C15_Witness ==
    /\ lastEvent = "copyToClipboard"
    /\ ~isResearching
    /\ copied
    /\ artifactContent # <<>>
    /\ groundingSources # <<>>

\* C16: the run holds as continuation context the artifact as it was before
\* its own separator (the artifact is that context, the separator if it was
\* not empty, and the run's texts), and as topic the content of its user
\* message.
C16_PriorIsArtifactAtSubmit ==
    \A i \in DOMAIN sessions :
        /\ sessions[i].content = LastTopic
        /\ sessions[i].pc = "starting"
             => artifactContent
                  = IF sessions[i].currentArtifact = <<>> THEN <<>>
                    ELSE sessions[i].currentArtifact \o Separator

\* the second request is in flight on what a first, failed session left
C16_Witness ==
    /\ sessions # <<>>
    /\ sessions[1].pc = "starting"
    /\ sessions[1].currentArtifact = <<"y">>
    /\ ErrorCount(messages) = 1

IsThinking(m) == m.content = ThinkingContent

\* C18: while researching the list ends with the run's user message and the
\* transient message after it, and in Idle the list holds no transient
\* message.
C18_ThinkingOnlyWhileResearching ==
    /\ isResearching
         => /\ Len(messages) >= 3
            /\ IsThinking(Last(messages))
            /\ messages[Len(messages) - 1].role = "user"
            /\ \A j \in 1..(Len(messages) - 1) : ~IsThinking(messages[j])
    /\ ~isResearching => \A j \in DOMAIN messages : ~IsThinking(messages[j])

\* Idle again after the only session so far
C18_Witness ==
    /\ ~isResearching
    /\ Len(messages) = 3
    /\ sessions = <<>>

\* the message at place j closes the session whose user message precedes it
IsTerminalOf(m, user) ==
    \/ m.role = "ai" /\ m.content = CompletionOf(user.content)
    \/ m.role = "system" /\ m.content = ErrorContent

\* C19: in Idle the list is the welcome message and one pair per session,
\* the user message and right after it that session's terminal message.
C19_WelcomeThenPairs ==
    ~isResearching
      => /\ Len(messages) = 1 + 2 * Submitted
         /\ messages[1] = WelcomeMsg
         /\ \A j \in 1..Submitted :
              /\ messages[2 * j].role = "user"
              /\ Trim(messages[2 * j].content) # <<>>
              /\ IsTerminalOf(messages[2 * j + 1], messages[2 * j])

\* two sessions done, the first failed and the second completed
C19_Witness ==
    /\ ~isResearching
    /\ Len(messages) = 5
    /\ messages[3].role = "system"
    /\ messages[5].role = "ai"

\* C20: every step leaves the previous citation set as a prefix of the new
\* one, and what it adds has uris the previous set did not hold.
C20_CitationsOnlyGrow ==
    [][/\ IsPrefix(groundingSources, groundingSources')
       /\ \A k \in DOMAIN groundingSources' :
            k > Len(groundingSources)
              => UriOf(groundingSources'[k]) \notin ExistingUris(groundingSources)]_vars

\* the second session delivered a citation the first had collected
C20_Witness ==
    /\ artifactContent = <<"y">> \o Separator \o <<"y">>
    /\ groundingSources = <<CiteA>>

====
